---- MODULE Spec2Model ----
(***************************************************************************)
(* Model of main.py, the firmware of a Wi-Fi microcontroller: the OTA      *)
(* update check (check_for_updates, update_script), the rotating log       *)
(* (log_event, rotate_log_file), the Wi-Fi connection and its monitor task *)
(* (connect_wifi, monitor_wifi), time synchronisation (sync_time) and the  *)
(* web server (start_web_server, serve) under the cooperative scheduler.   *)
(*                                                                         *)
(* Reading of the source.  Lines 90, 97, 103 and 109 of main.py lack the   *)
(* closing parenthesis that the eight other copies of the same statement   *)
(* have, and the else clauses of lines 94 and 100 are indented one level   *)
(* too deep.  The model reads them as the statement of line 121 and as the *)
(* else branches of the ifs of lines 86 and 76, which is the only reading  *)
(* under which the printed messages of the branches make sense.            *)
(*                                                                         *)
(* Files are records [ex, data].  The installed image is a text, a         *)
(* sequence of characters; a log file is a sequence of entries, each with  *)
(* the number of bytes its line takes.  A handler is computed as a         *)
(* function on a world record w (the files, the pending exception, the     *)
(* trace of what the handler did); an action applies one handler to the    *)
(* state, from one suspension point of its task to the next.               *)
(***************************************************************************)
EXTENDS Integers, Sequences, FiniteSets, TLC

VARIABLES
    image,      \* the file SCRIPT_NAME ("main.py"): [ex, data]
    logf,       \* the file LOG_FILE: [ex, data], data a sequence of entries
    bak,        \* the file LOG_FILE + ".bak"
    resets,     \* number of times the board reset primitive was invoked
    link,       \* what wlan.isconnected() answers
    pcMain,     \* position of the main task
    pcMon,      \* position of the monitor_wifi task
    attempts,   \* sleeps done in the for loop of connect_wifi
    mattempts,  \* sleeps done in the for loop of monitor_wifi
    retries,    \* sync_time's retries
    op,         \* the handler that ran last
    started,    \* which startup steps have begun
    chk,        \* the update check of the last handler, if it ran one
    calls,      \* the log_event calls of the last handler
    http,       \* the client connection of the last handler, if it served one
    mosfet,     \* the output pin driving the LED strip
    remote,     \* the text of the remote file
    faultsLeft, \* storage faults the environment may still inject
    dropsLeft,  \* link losses the environment may still cause
    cyclesLeft, \* reconnection cycles the monitor may still start
    reqsLeft,   \* requests that write to the log, still to come
    netLeft,    \* failures of a client socket the environment may still cause
    now,        \* the date time.localtime() gives: [month, day]
    stamp,      \* the time offset of the log line stamped last, if any
    sched       \* the scheduler seen statement by statement: [run, main, mon, e]

vars == <<image, logf, bak, resets, link, pcMain, pcMon, attempts, mattempts,
          retries, op, started, chk, calls, http, mosfet, remote, faultsLeft,
          dropsLeft, cyclesLeft, reqsLeft, netLeft, now, stamp,
          sched>>

----------------------------------------------------------------------------
(* Program constants *)

MAX_LOG_SIZE == 10240

POLL_LIMIT == 30

MAX_RETRIES == 5

(* Bounds of the model *)

\* nested log_event frames the interpreter's stack holds before a call fails
RecursionLimit == 3

\* storage faults the environment injects in one run
MaxFaults == 1

\* times the Wi-Fi link is lost in one run
MaxDrops == 1

\* reconnection cycles of the monitor in one run
MaxCycles == 1

\* requests that write to the log, served in one run
MaxReqs == 2

\* times ntptime.settime() fails in one run
MaxNtpFails == 1
\* socket failures of clients the environment may cause
MaxNetFaults == 1
\* log_event calls made on one date
MaxStamps == 1
\* clients the server accepts in a run followed statement by statement
MaxClients == 1

----------------------------------------------------------------------------
(* Texts and normalize_code *)

LF == "\n"
CR == "\r"
SP == " "
TAB == "\t"
FF == "\f"
VT == ""
FS == ""
GS == ""
RS == ""
US == ""

\* the characters str.rstrip() strips, of the ASCII characters
Whitespace == {SP, TAB, LF, CR, VT, FF, FS, GS, RS, US}

\* the characters that end a line for str.splitlines(), of the ASCII characters
IsBreak(c) == c \in {LF, CR, VT, FF, FS, GS, RS}

\* first index of a line break in s, or 0
RECURSIVE FirstBreak(_, _)
FirstBreak(s, i) ==
    IF i > Len(s) THEN 0
    ELSE IF IsBreak(s[i]) THEN i ELSE FirstBreak(s, i + 1)

\* str.splitlines(): LF, CR, CR LF, VT, FF, FS, GS and RS end a line; no
\* empty last line
RECURSIVE splitlines(_)
splitlines(s) ==
    IF s = <<>> THEN <<>>
    ELSE LET i == FirstBreak(s, 1) IN
         IF i = 0 THEN <<s>>
         ELSE LET j == IF s[i] = CR /\ i < Len(s) /\ s[i + 1] = LF
                       THEN i + 1 ELSE i
              IN <<SubSeq(s, 1, i - 1)>> \o splitlines(SubSeq(s, j + 1, Len(s)))

\* a normalization that keeps the trailing whitespace
rstrip_none(s) == s

\* str.rstrip(): drop the trailing whitespace
RECURSIVE rstrip(_)
rstrip(s) ==
    IF s # <<>> /\ s[Len(s)] \in Whitespace
    THEN rstrip(SubSeq(s, 1, Len(s) - 1)) ELSE s

\* "\n".join(ls)
RECURSIVE join(_)
join(ls) ==
    IF ls = <<>> THEN <<>>
    ELSE IF Len(ls) = 1 THEN ls[1]
    ELSE ls[1] \o <<LF>> \o join(Tail(ls))

normalize_code(code) ==
    LET ls == splitlines(code)
    IN join([k \in 1..Len(ls) |-> rstrip(ls[k])])

----------------------------------------------------------------------------
(* Files, log lines, the world record *)

File(d) == [ex |-> TRUE, data |-> d]
Absent == [ex |-> FALSE, data |-> <<>>]

Msg(t, a) == [text |-> t, arg |-> a]

\* bytes of the literal part of a message
TextBytes(t) ==
    CASE t = "Checked for updates: No updates available." -> 42
      [] t = "Connected to Wi-Fi, IP address: " -> 32
      [] t = "Connecting to Wi-Fi..." -> 22
      [] t = "Error during OTA update: " -> 25
      [] t = "Error during manual OTA update: " -> 32
      [] t = "Error synchronizing time (attempt n): " -> 38
      [] t = "Error: " -> 7
      [] t = "Failed to connect to Wi-Fi" -> 26
      [] t = "Failed to fetch update: " -> 24
      [] t = "Failed to synchronize time after multiple attempts" -> 50
      [] t = "LED Strip turned OFF" -> 20
      [] t = "LED Strip turned ON" -> 19
      [] t = "Log file size exceeded, rotating log file." -> 42
      [] t = "Manual OTA update check triggered via web." -> 42
      [] t = "OTA update applied. Restarting..." -> 33
      [] t = "Time synchronized with NTP" -> 26
      [] t = "Update available. Applying update..." -> 36
      [] t = "Web server started" -> 18
      [] t = "Wi-Fi disconnected, attempting reconnection" -> 43
      [] t = "Wi-Fi reconnected" -> 17
      [] t = "Wi-Fi reconnection failed" -> 25
      [] OTHER -> 0

\* bytes of the formatted part
ArgBytes(a) ==
    CASE a = "" -> 0
      [] a = "404" -> 3
      [] a = "name 'machine' isn't defined" -> 28
      [] a = "OSError" -> 7
      [] a = "ECONNRESET" -> 10
      [] a = "RuntimeError" -> 12
      [] a = "ip" -> 11
      [] OTHER -> 0

\* "{:04}-{:02}-{:02} {:02}:{:02}:{:02} - " + message + "\n"
LineBytes(m) == 22 + TextBytes(m.text) + ArgBytes(m.arg) + 1

Entry(m) == [text |-> m.text, arg |-> m.arg, n |-> LineBytes(m)]

\* earlier content of a log file, n bytes of it
Old(n) == [text |-> "old", arg |-> "", n |-> n]

RECURSIVE SumBytes(_)
SumBytes(d) == IF d = <<>> THEN 0 ELSE d[1].n + SumBytes(Tail(d))

\* uos.stat(path)[6]
Size(f) == SumBytes(f.data)

Ev(e, m) == [e |-> e, text |-> m.text, arg |-> m.arg]
NoMsg == Msg("", "")

AddEv(w, e, m) == [w EXCEPT !.ev = Append(@, Ev(e, m))]

Raise(w, x) == [w EXCEPT !.exc = x]

\* run F unless an exception is pending
Then(w, F(_)) == IF w.exc # "" THEN w ELSE F(w)

\* no update check: the record of a handler that ran none
NoCheck ==
    [seq |-> 0, streak |-> 0, status |-> "", text |-> <<>>, fault |-> "none",
     pre |-> Absent, prelog |-> Absent, ev |-> <<>>, calls |-> <<>>,
     writes |-> 0, resets |-> 0, returned |-> TRUE]

NoClient == [path |-> "", resp |-> "", body |-> "", closes |-> 0]

\* the world a handler starts in
World ==
    [image |-> image, logf |-> logf, bak |-> bak, resets |-> resets,
     chk |-> [NoCheck EXCEPT !.seq = chk.seq, !.streak = chk.streak],
     exc |-> "", ev |-> <<>>, calls |-> <<>>, ren |-> 0]

----------------------------------------------------------------------------
(* The log: file_exists, rotate_log_file, log_event *)

RotMsg == Msg("Log file size exceeded, rotating log file.", "")

\* the storage faults a handler can meet; a fault lasts for the handler
LogFaults == {"stat", "size", "rename", "append"}
WriteFaults == {"wopen", "wwrite"}

\* file_exists(path), for LOG_FILE and for SCRIPT_NAME: any OSError of
\* uos.stat reads as "no such file"
file_exists(f, fault) == IF fault = "stat" THEN FALSE ELSE f.ex

\* rotate_log_file(): the rename, its failure caught and printed
rotate_log_file(w, fault) ==
    IF file_exists(w.logf, fault) /\ fault # "rename"
    THEN [w EXCEPT !.bak = w.logf, !.logf = Absent, !.ren = @ + 1]
    ELSE w

\* open(LOG_FILE, "a") and write of one line
append_line(w, m, fault) ==
    IF fault = "append" THEN Raise(w, "OSError")
    ELSE [w EXCEPT !.logf = File(w.logf.data \o <<Entry(m)>>)]

RECURSIVE log_event(_, _, _, _), log_event_try(_, _, _, _)

\* the try block of log_event, in the frame at the given depth
log_event_try(w, m, fault, depth) ==
    IF ~file_exists(w.logf, fault) THEN append_line(w, m, fault)
    ELSE IF fault = "size" THEN Raise(w, "OSError")
    ELSE IF Size(w.logf) >= MAX_LOG_SIZE
    THEN IF depth + 1 > RecursionLimit
         THEN Raise(w, "RuntimeError")
         ELSE LET w1 == log_event(w, RotMsg, fault, depth + 1)
                  w2 == Then(w1, LAMBDA x : rotate_log_file(x, fault))
              IN Then(w2, LAMBDA x : append_line(x, m, fault))
    ELSE append_line(w, m, fault)

\* log_event without its except clause: what the try block raises reaches
\* the caller
log_event_uncaught(w, m, fault, depth) == log_event_try(w, m, fault, depth)

\* log_event: the try block, every Exception caught and printed
log_event(w, m, fault, depth) ==
    [log_event_try(w, m, fault, depth) EXCEPT !.exc = ""]

\* the record of a log_event call: w before it, r after it
Logged(w, m, fault, r) ==
    [r EXCEPT !.calls = Append(@, [text |-> m.text, arg |-> m.arg,
                                   fault |-> fault,
                                   over |-> w.logf.ex /\ Size(w.logf) >= MAX_LOG_SIZE,
                                   renames |-> r.ren - w.ren,
                                   raised |-> r.exc # "",
                                   before |-> w.logf, after |-> r.logf,
                                   bak |-> r.bak]),
              !.ev = Append(@, Ev("log", m))]

\* a log_event call of a handler, with what it did recorded
Log(w, m, fault) == Logged(w, m, fault, log_event(w, m, fault, 1))

----------------------------------------------------------------------------
(* The update check: flash_led, update_script, check_for_updates *)

\* the texts an installed image is drawn from, and the texts the remote
\* file is drawn from: equal as they are, equal only once normalized, different
Installed == {<<"a", SP, LF>>, <<"a", LF, "b">>}
Remote == {<<"a">>, <<"a", CR, LF, "b", SP>>}

\* what urequests.get gives: an exception, or a status and a text
Fetches(t) ==
    {[status |-> "raise", text |-> <<>>], [status |-> "404", text |-> <<>>],
     [status |-> "200", text |-> t]}

\* flash_led(pattern=long, short, long): blocks, then returns
flash_led(w) == AddEv(w, "flash", NoMsg)

\* machine.reset() where line 4 imports only Pin and reset from machine:
\* the name machine is not bound, and looking it up raises NameError
machine_reset(w) ==
    Raise(AddEv(w, "NameError", NoMsg), "name 'machine' isn't defined")

\* with open(SCRIPT_NAME, "w") as f: f.write(new_code)
write_image(w, new_code, fault) ==
    IF fault = "wopen" THEN Raise(AddEv(w, "write_failed", NoMsg), "OSError")
    ELSE IF fault = "wwrite"
    THEN Raise([AddEv(w, "write_failed", NoMsg) EXCEPT !.image = File(<<>>)],
               "OSError")
    ELSE [AddEv(w, "write", NoMsg) EXCEPT !.image = File(new_code)]

\* update_script going on to the log line and the restart after a failed write
update_script_unguarded(w, new_code, fault) ==
    LET w1 == write_image(w, new_code, fault)
        w2 == Log([w1 EXCEPT !.exc = ""],
                  Msg("OTA update applied. Restarting...", ""), fault)
    IN Then(w2, machine_reset)

\* update_script(new_code), lines 116 to 124
update_script(w, new_code, fault) ==
    LET w1 == write_image(w, new_code, fault)
        w2 == Then(w1, LAMBDA x :
                  Log(x, Msg("OTA update applied. Restarting...", ""), fault))
    IN Then(w2, machine_reset)

\* the try block of check_for_updates, lines 69 to 105
check_try(w, fetch, fault) ==
    IF fetch.status = "raise" THEN Raise(AddEv(w, "fetch_raised", NoMsg), "OSError")
    ELSE IF fetch.status = "200"
    THEN LET new_code == normalize_code(fetch.text)
             w0 == AddEv(w, "fetch_ok", NoMsg)
         IN IF ~file_exists(w0.image, fault)
            THEN update_script(w0, new_code, fault)
            ELSE LET current_code == normalize_code(w0.image.data) IN
                 IF current_code # new_code
                 THEN LET w1 == flash_led(w0)
                          w2 == Log(w1, Msg("Update available. Applying update...", ""),
                                    fault)
                      IN Then(w2, LAMBDA x : update_script(x, new_code, fault))
                 ELSE Log(w0, Msg("Checked for updates: No updates available.", ""),
                          fault)
    ELSE Log(AddEv(w, "fetch_status", Msg("", fetch.status)),
             Msg("Failed to fetch update: ", fetch.status), fault)

\* check_for_updates without its except clause
check_except_reraise(w, fault) == w

\* except Exception as e, lines 106 to 111; a reset of the board is no exception
check_except(w, fault) ==
    IF w.exc \in {"", "RESET"} THEN w
    ELSE Log([w EXCEPT !.exc = ""], Msg("Error during OTA update: ", w.exc), fault)

\* check_for_updates(); chk records the call: what it was given, what it did,
\* and whether it returned to its caller
Checked(w, fetch, fault, r) ==
    [r EXCEPT !.ev = w.ev \o r.ev,
              !.calls = w.calls \o r.calls,
              !.chk = [seq |-> w.chk.seq + 1,
                       streak |-> IF \E k \in 1..Len(r.calls) : r.calls[k].text =
                                       "Checked for updates: No updates available."
                                  THEN w.chk.streak + 1 ELSE 0,
                       status |-> fetch.status, text |-> fetch.text,
                       fault |-> fault,
                       pre |-> w.image, prelog |-> w.logf,
                       ev |-> r.ev, calls |-> r.calls,
                       writes |-> Cardinality({k \in 1..Len(r.ev) :
                                                 r.ev[k].e = "write"}),
                       resets |-> r.resets - w.resets,
                       returned |-> r.exc = ""]]

check_for_updates(w, fetch, fault) ==
    Checked(w, fetch, fault,
            check_except(check_try([w EXCEPT !.ev = <<>>, !.calls = <<>>],
                                   fetch, fault), fault))

----------------------------------------------------------------------------
(* The state after construction *)

\* no log line stamped yet
NoStamp == [text |-> "", offset |-> 0]

\* a day of the summer
Summer == [month |-> 7, day |-> 1]

\* no task seen statement by statement
NoSched == [run |-> "none", main |-> <<>>, mon |-> <<>>, e |-> "", fault |-> "none"]

\* the counters and the records of the last handler, before any handler ran
Fresh ==
    /\ attempts = 0
    /\ mattempts = 0
    /\ retries = 0
    /\ op = "boot"
    /\ chk = NoCheck
    /\ calls = <<>>
    /\ http = NoClient
    /\ mosfet = FALSE
    /\ stamp = NoStamp
    /\ sched = NoSched

\* what every boot starts with, whatever the files are
Boot ==
    /\ resets = 0
    /\ pcMain = "start"
    /\ pcMon = "none"
    /\ started = {}
    /\ Fresh

\* a first boot: with or without an installed image, no log yet; the storage
\* works and no client writes to the log
Init ==
    /\ image \in {Absent, File(<<"a", SP, LF>>)}
    /\ logf = Absent
    /\ bak = Absent
    /\ link \in BOOLEAN
    /\ remote \in Remote
    /\ image = Absent => remote = <<"a">>
    /\ faultsLeft = 0
    /\ dropsLeft = MaxDrops
    /\ cyclesLeft = MaxCycles
    /\ reqsLeft = 0
    /\ netLeft = 0
    /\ now = Summer
    /\ Boot

----------------------------------------------------------------------------
(* Handlers applied to the state *)

\* the faults the environment may inject into a handler now
FaultChoices(S) == {"none"} \cup (IF faultsLeft > 0 THEN S ELSE {})

Inject(f) ==
    faultsLeft' = IF f \in LogFaults \cup WriteFaults THEN faultsLeft - 1
                  ELSE faultsLeft

\* the files and the records of a handler's world become the state
Commit(w) ==
    /\ image' = w.image
    /\ logf' = w.logf
    /\ bak' = w.bak
    /\ resets' = w.resets
    /\ chk' = w.chk
    /\ calls' = w.calls

\* where the main task is after a handler: at pc, unless an exception escaped
\* or the board was reset
MainAfter(w, pc) ==
    CASE w.exc = "" -> pc
      [] w.exc = "RESET" -> "start"
      [] OTHER -> "crashed"

\* the main task has run a handler and is at pc, the steps st begun
MainRuns(w, pc, st) ==
    /\ Commit(w)
    /\ pcMain' = MainAfter(w, pc)
    /\ started' = IF w.exc = "RESET" THEN {} ELSE started \cup st

\* the monitor task has run a handler and is at pc; an exception ends the task
MonitorRuns(w, pc) ==
    /\ Commit(w)
    /\ pcMon' = IF w.exc # "" THEN "dead" ELSE pc

\* a loop that polls once more than range(30) allows
LoopOverLate(n) == n > POLL_LIMIT

\* for _ in range(30): the loop is over after 30 iterations
LoopOver(n) == n >= POLL_LIMIT

----------------------------------------------------------------------------
(* connect_wifi and main *)

ConnectedMsg == Msg("Connected to Wi-Fi, IP address: ", "ip")

\* connect_wifi up to its first suspension: lines 166 to 177, or 183 to 188
ConnectWifi ==
    /\ pcMain = "start"
    /\ \E f \in FaultChoices(LogFaults) :
          /\ Inject(f)
          /\ IF link
             THEN MainRuns(Log(World, ConnectedMsg, f), "connected", {})
             ELSE MainRuns(Log(World, Msg("Connecting to Wi-Fi...", ""), f),
                           "connecting", {})
    /\ attempts' = IF link THEN 0 ELSE 1
    /\ op' = "connect"
    /\ http' = NoClient
    /\ UNCHANGED <<link, remote, pcMon, mattempts, retries, mosfet, dropsLeft,
                   cyclesLeft, reqsLeft>>
    /\ UNCHANGED <<netLeft, now, stamp, sched>>

\* the for loop of connect_wifi after a sleep: the next poll, or the else
\* clause; on failure main returns (lines 470 to 472)
ConnectPoll ==
    /\ pcMain = "connecting"
    /\ \E f \in FaultChoices(LogFaults) :
          /\ Inject(f)
          /\ IF LoopOver(attempts)
             THEN MainRuns(Log(World, Msg("Failed to connect to Wi-Fi", ""), f),
                           "exit", {})
             ELSE IF link
             THEN MainRuns(Log(World, ConnectedMsg, f), "connected", {})
             ELSE f = "none" /\ MainRuns(World, "connecting", {})
    /\ attempts' = IF LoopOver(attempts) \/ link THEN 0 ELSE attempts + 1
    /\ op' = "connect"
    /\ http' = NoClient
    /\ UNCHANGED <<link, remote, pcMon, mattempts, retries, mosfet, dropsLeft,
                   cyclesLeft, reqsLeft>>
    /\ UNCHANGED <<netLeft, now, stamp, sched>>

\* main, line 475: the update check before the application starts
StartupCheck ==
    /\ pcMain = "connected"
    /\ \E fetch \in Fetches(remote), f \in FaultChoices(LogFaults \cup WriteFaults) :
          /\ Inject(f)
          /\ MainRuns(check_for_updates(World, fetch, f), "checked", {"check"})
    /\ op' = "check"
    /\ http' = NoClient
    /\ UNCHANGED <<link, remote, pcMon, attempts, mattempts, retries, mosfet,
                   dropsLeft, cyclesLeft, reqsLeft>>
    /\ UNCHANGED <<netLeft, now, stamp, sched>>

\* main, lines 478 to 481: create the monitor task, then sleep
SpawnMonitor ==
    /\ pcMain = "checked"
    /\ MainRuns(World, "sleep1", {"monitor"})
    /\ pcMon' = "ready"
    /\ op' = "spawn"
    /\ http' = NoClient
    /\ UNCHANGED <<link, remote, attempts, mattempts, retries, mosfet, faultsLeft,
                   dropsLeft, cyclesLeft, reqsLeft>>
    /\ UNCHANGED <<netLeft, now, stamp, sched>>

----------------------------------------------------------------------------
(* sync_time *)

\* one pass of the while loop of sync_time: lines 216 to 224 when
\* ntptime.settime() succeeds, lines 225 to 236 when it raises
sync_time(w, ok, last, fault) ==
    IF ok THEN Log(w, Msg("Time synchronized with NTP", ""), fault)
    ELSE IF ~last
    THEN Log(w, Msg("Error synchronizing time (attempt n): ", "OSError"), fault)
    ELSE Then(Log(w, Msg("Error synchronizing time (attempt n): ", "OSError"),
                  fault),
              LAMBDA x : Log(x,
                  Msg("Failed to synchronize time after multiple attempts", ""),
                  fault))

\* one iteration of the while loop of sync_time(max_retries=5), entered when
\* the sleep of line 481 or of line 229 ends
SyncTime ==
    /\ pcMain \in {"sleep1", "ntp_wait"}
    /\ \E ok \in BOOLEAN, f \in FaultChoices(LogFaults) :
          /\ ~ok => retries < MaxNtpFails
          /\ Inject(f)
          /\ MainRuns(sync_time(World, ok, retries + 1 >= MAX_RETRIES, f),
                      IF ok \/ retries + 1 >= MAX_RETRIES THEN "sleep2"
                      ELSE "ntp_wait",
                      {"sync"})
          /\ retries' = IF ok \/ retries + 1 >= MAX_RETRIES THEN 0 ELSE retries + 1
    /\ op' = "sync"
    /\ http' = NoClient
    /\ UNCHANGED <<link, remote, pcMon, attempts, mattempts, mosfet, dropsLeft,
                   cyclesLeft, reqsLeft>>
    /\ UNCHANGED <<netLeft, now, stamp, sched>>

----------------------------------------------------------------------------
(* The web server: start_web_server, serve, serve_log *)

\* start_web_server up to s.accept(), entered when the sleep of line 485 ends
StartWebServer ==
    /\ pcMain = "sleep2"
    /\ \E f \in FaultChoices(LogFaults) :
          /\ Inject(f)
          /\ MainRuns(Log(World, Msg("Web server started", ""), f), "accept",
                      {"web"})
    /\ op' = "web"
    /\ http' = NoClient
    /\ UNCHANGED <<link, remote, pcMon, attempts, mattempts, retries, mosfet,
                   dropsLeft, cyclesLeft, reqsLeft>>
    /\ UNCHANGED <<netLeft, now, stamp, sched>>

\* the request lines a client sends, by their path
Paths ==
    {"/led/on", "/led/off", "/log", "/ota-update", "/update", "/logs"}

\* what client.recv gives for a request of the path
Request(path) == "GET " \o path \o " HTTP/1.1"

\* pattern in request
Contains(request, pattern) ==
    \E i \in 1..(Len(request) - Len(pattern) + 1) :
        SubSeq(request, i, i + Len(pattern) - 1) = pattern

\* the chain of substring tests of serve, lines 243 to 277
Dispatch(request) ==
    IF Contains(request, "GET /led/on") THEN "led_on"
    ELSE IF Contains(request, "GET /led/off") THEN "led_off"
    ELSE IF Contains(request, "GET /log") THEN "log"
    ELSE IF Contains(request, "GET /ota-update") THEN "ota"
    ELSE "page"

\* the branch of serve each path of Paths takes
Routes == [path \in Paths |-> Dispatch(Request(path))]

Route(path) == Routes[path]

\* the routes that write to the log
Logging(path) == Route(path) \in {"led_on", "led_off", "ota"}

\* the failures of the client socket: client.recv raises, client.send raises;
\* like a storage fault, it lasts for the handler
NetFaults == {"recv", "send"}

\* what serve has for the client so far: the world, the status line and the
\* body of the response that was sent, none when none was sent
Response(w, resp, body) == [w |-> w, resp |-> resp, body |-> body]

\* client.send(response)
send(w, resp, body, fault) ==
    IF fault = "send" THEN Response(Raise(w, "ECONNRESET"), "", "")
    ELSE Response(w, resp, body)

\* serve_log(client): 404 when file_exists finds no log, else its content;
\* when the send raises, the except clause of line 441 sends again, which
\* raises again
serve_log(w, fault) ==
    IF file_exists(w.logf, fault) THEN send(w, "200", "log", fault)
    ELSE send(w, "404", "Log file not found.", fault)

\* the response of the manual update check: 200 with str(update_status),
\* and check_for_updates returns no value; 500 from the except clause
ota_response(w, fault) ==
    IF w.exc \in {"", "RESET"} THEN send(w, "200", "None", fault)
    ELSE send(Log([w EXCEPT !.exc = ""],
                  Msg("Error during manual OTA update: ", w.exc), fault),
              "500", "Error checking for updates.", fault)

\* the route of the manual update check, lines 262 to 276
serve_ota(w, fetch, fault) ==
    ota_response(
        Then(Log(w, Msg("Manual OTA update check triggered via web.", ""), fault),
             LAMBDA x : check_for_updates(x, fetch, fault)),
        fault)

\* the try block of serve, lines 242 to 415
serve_try(w, path, fetch, fault) ==
    IF fault = "recv" THEN Response(Raise(w, "ECONNRESET"), "", "")
    ELSE CASE Route(path) = "led_on" ->
                send(Log(w, Msg("LED Strip turned ON", ""), fault),
                     "200", "LED Strip ON", fault)
           [] Route(path) = "led_off" ->
                send(Log(w, Msg("LED Strip turned OFF", ""), fault),
                     "200", "LED Strip OFF", fault)
           [] Route(path) = "log" -> serve_log(w, fault)
           [] Route(path) = "ota" -> serve_ota(w, fetch, fault)
           [] OTHER -> send(w, "200", "page", fault)

\* serve without its except clause
serve_reraise(s, fault) == s

\* except Exception as e, lines 416 and 417
serve_except(s, fault) ==
    IF s.w.exc \in {"", "RESET"} THEN s
    ELSE Response(Log([s.w EXCEPT !.exc = ""], Msg("Error: ", s.w.exc), fault),
                  "", "")

\* finally: client.close(), lines 418 and 419
serve_finally(s) == [w |-> s.w, resp |-> s.resp, body |-> s.body, closes |-> 1]

\* serve(client): one request
serve(w, path, fetch, fault) ==
    serve_finally(serve_except(serve_try(w, path, fetch, fault), fault))

\* mosfet.on() and mosfet.off() of the two LED routes
Switch(path) ==
    CASE Route(path) = "led_on" -> TRUE
      [] Route(path) = "led_off" -> FALSE
      [] OTHER -> mosfet

\* the main task has served a request: s is what serve gave
Served(s, path) ==
    /\ MainRuns(s.w, "accept", {})
    /\ http' = [path |-> path, resp |-> s.resp, body |-> s.body,
                closes |-> s.closes]

\* the socket failures the environment may cause now
NetChoices == IF netLeft > 0 THEN NetFaults ELSE {}

\* the requests that write to the log: by their route, or by the failure
WritesLog(path, fault) == Logging(path) \/ fault \in NetFaults

\* one turn of the while loop of start_web_server: s.accept() returns a client
\* and serve runs to its end; main never leaves the loop
Serve ==
    /\ pcMain = "accept"
    /\ \E path \in Paths, fetch \in Fetches(remote),
          f \in FaultChoices(LogFaults \cup WriteFaults) \cup NetChoices :
          /\ WritesLog(path, f) => reqsLeft > 0
          /\ Route(path) # "ota" => fetch.status = "raise" /\ f \notin WriteFaults
          /\ f = "recv" => path = "/update" /\ fetch.status = "raise"
          /\ ~WritesLog(path, f) => f = "none" \/ (Route(path) = "log" /\ f = "stat")
          /\ Inject(f)
          /\ netLeft' = IF f \in NetFaults THEN netLeft - 1 ELSE netLeft
          /\ Served(serve(World, path, fetch, f), path)
          /\ mosfet' = IF f = "recv" THEN mosfet ELSE Switch(path)
          /\ reqsLeft' = IF WritesLog(path, f) THEN reqsLeft - 1 ELSE reqsLeft
    /\ op' = "serve"
    /\ UNCHANGED <<link, remote, pcMon, attempts, mattempts, retries, dropsLeft,
                   cyclesLeft>>
    /\ UNCHANGED <<now, stamp, sched>>

----------------------------------------------------------------------------
(* monitor_wifi *)

\* the monitor runs only while the main task is suspended in asyncio.sleep:
\* s.accept() and serve never yield to the scheduler
MainSuspended == pcMain \in {"sleep1", "ntp_wait", "sleep2"}

\* the head of the while loop, lines 194 to 201 and 209
MonitorPoll ==
    /\ MainSuspended
    /\ pcMon = "ready"
    /\ ~link => cyclesLeft > 0
    /\ cyclesLeft' = IF link THEN cyclesLeft ELSE cyclesLeft - 1
    /\ \E f \in FaultChoices(LogFaults) :
          /\ Inject(f)
          /\ IF link THEN f = "none" /\ MonitorRuns(World, "ready")
             ELSE MonitorRuns(
                      Log(World,
                          Msg("Wi-Fi disconnected, attempting reconnection", ""), f),
                      "retry")
    /\ mattempts' = IF link THEN 0 ELSE 1
    /\ op' = "poll"
    /\ http' = NoClient
    /\ UNCHANGED <<link, remote, pcMain, attempts, retries, started, mosfet,
                   dropsLeft, reqsLeft>>
    /\ UNCHANGED <<netLeft, now, stamp, sched>>

\* the for loop of monitor_wifi after a sleep, lines 198 to 209
MonitorRetry ==
    /\ MainSuspended
    /\ pcMon = "retry"
    /\ \E f \in FaultChoices(LogFaults) :
          /\ Inject(f)
          /\ IF link
             THEN MonitorRuns(Log(World, Msg("Wi-Fi reconnected", ""), f), "ready")
             ELSE IF LoopOver(mattempts)
             THEN MonitorRuns(Log(World, Msg("Wi-Fi reconnection failed", ""), f),
                              "ready")
             ELSE f = "none" /\ MonitorRuns(World, "retry")
    /\ mattempts' = IF link \/ LoopOver(mattempts) THEN 0 ELSE mattempts + 1
    /\ op' = "poll"
    /\ http' = NoClient
    /\ UNCHANGED <<link, remote, pcMain, attempts, retries, started, mosfet,
                   dropsLeft, cyclesLeft, reqsLeft>>
    /\ UNCHANGED <<netLeft, now, stamp, sched>>

----------------------------------------------------------------------------
(* The environment and the specifications *)

LinkDown ==
    /\ link
    /\ dropsLeft > 0
    /\ link' = FALSE
    /\ dropsLeft' = dropsLeft - 1
    /\ UNCHANGED <<image, logf, bak, resets, remote, pcMain, pcMon, attempts,
                   mattempts, retries, op, started, chk, calls, http, mosfet,
                   faultsLeft, cyclesLeft, reqsLeft>>
    /\ UNCHANGED <<netLeft, now, stamp, sched>>

LinkUp ==
    /\ ~link
    /\ link' = TRUE
    /\ UNCHANGED <<image, logf, bak, resets, remote, pcMain, pcMon, attempts,
                   mattempts, retries, op, started, chk, calls, http, mosfet,
                   faultsLeft, dropsLeft, cyclesLeft, reqsLeft>>
    /\ UNCHANGED <<netLeft, now, stamp, sched>>

MainStep ==
    \/ ConnectWifi
    \/ ConnectPoll
    \/ StartupCheck
    \/ SpawnMonitor
    \/ SyncTime
    \/ StartWebServer
    \/ Serve

MonitorStep == MonitorPoll \/ MonitorRetry

Next == MainStep \/ MonitorStep \/ LinkDown \/ LinkUp

\* the program from a first boot, the storage working
Spec == Init /\ [][Next]_vars

\* the log files a handler can find: none, a short one, one just below the
\* limit, one at the limit
InitLogs ==
    {Absent, File(<<Old(100)>>), File(<<Old(MAX_LOG_SIZE - 1)>>),
     File(<<Old(MAX_LOG_SIZE)>>)}

\* the handlers that check for updates and write the log, each started in
\* the states the program can be in when it runs: before the startup check,
\* and in the accept loop of the web server; any installed image, any log,
\* the storage failing up to MaxFaults times
InitOps ==
    /\ image \in {Absent} \cup {File(t) : t \in Installed}
    /\ logf \in InitLogs
    /\ bak \in {Absent, File(<<Old(50)>>)}
    /\ link = TRUE
    /\ remote \in Remote
    /\ faultsLeft = MaxFaults
    /\ dropsLeft = 0
    /\ cyclesLeft = 0
    /\ reqsLeft = MaxReqs
    /\ netLeft = 0
    /\ now = Summer
    /\ resets = 0
    /\ \/ pcMain = "connected" /\ pcMon = "none" /\ started = {}
       \/ pcMain = "accept" /\ pcMon = "ready"
          /\ started = {"check", "monitor", "sync", "web"}
    /\ Fresh

NextOps == StartupCheck \/ Serve

SpecOps == InitOps /\ [][NextOps]_vars

\* the steps of the main task that wait for nothing but the scheduler: the
\* start of main and the steps that follow the end of one of its sleeps.
\* Serve is not among them: it follows the return of s.accept() (line 461),
\* which blocks until a client connects, and a client may never connect.
MainWakes ==
    \/ ConnectWifi
    \/ ConnectPoll
    \/ StartupCheck
    \/ SpawnMonitor
    \/ SyncTime
    \/ StartWebServer

\* the program under the scheduler of uasyncio: a task that can run is run.
\* The main task runs when its sleep ends, the monitor task when its sleep
\* ends and the main task has yielded.  Nothing is assumed of the clients:
\* the main task may wait in accept for ever, or serve for ever.
SpecFair == Spec /\ WF_vars(MainWakes) /\ WF_vars(MonitorStep)

----------------------------------------------------------------------------
(* What the update check of the last handler was given, and what it did *)

NoUpdatesMsg == Msg("Checked for updates: No updates available.", "")
AppliedMsg == Msg("OTA update applied. Restarting...", "")
FetchFailedMsg == Msg("Failed to fetch update: ", "404")
CheckErrorMsg == Msg("Error during OTA update: ", "OSError")

Has(e) == \E k \in DOMAIN chk.ev : chk.ev[k].e = e

\* the fetch gave 200 and a text that differs, once normalized, from the image
Differs ==
    /\ chk.status = "200"
    /\ chk.pre.ex
    /\ normalize_code(chk.pre.data) # normalize_code(chk.text)

\* the fetch gave 200 and a text equal, once normalized, to the image
Same ==
    /\ chk.status = "200"
    /\ chk.pre.ex
    /\ normalize_code(chk.pre.data) = normalize_code(chk.text)

\* the fetch gave 200 and file_exists found no image, line 80
Missing == chk.status = "200" /\ ~file_exists(chk.pre, chk.fault)

\* the fetch raised, or gave another status than 200
Unavailable == chk.status \in {"raise", "404"}

\* no storage fault was injected into the handler of the check
StorageWorks == chk.fault = "none"

\* the check made one log_event call, with message m, and with the storage
\* working the line is the last of the log, after the lines the log had
\* unless the log was rotated
LoggedOnce(m) ==
    /\ Len(chk.calls) = 1
    /\ chk.calls[1].text = m.text
    /\ chk.calls[1].arg = m.arg
    /\ StorageWorks =>
          logf = File((IF chk.calls[1].over THEN <<>> ELSE chk.prelog.data)
                      \o <<Entry(m)>>)

\* the check left the image alone, invoked no restart and returned to a
\* caller that goes on
Harmless ==
    /\ chk.writes = 0
    /\ ~Has("write_failed")
    /\ image = chk.pre
    /\ chk.resets = 0
    /\ ~Has("NameError")
    /\ chk.returned
    /\ pcMain \in {"checked", "accept"}

----------------------------------------------------------------------------
(* The claims *)

\* C1: when an image is installed and the fetch gives 200 with a text whose
\* normal form differs from the image's, the check writes the image exactly
\* once, with the normalized text, appends the log line about the update
\* after the write and before the restart, and invokes the restart exactly once.
C1_DifferingUpdateRestartsOnce ==
    Differs /\ StorageWorks =>
        /\ chk.writes = 1
        /\ image = File(normalize_code(chk.text))
        /\ \E i, j \in DOMAIN chk.ev :
              /\ i < j
              /\ chk.ev[i].e = "write"
              /\ chk.ev[j].e = "log" /\ chk.ev[j].text = AppliedMsg.text
        /\ chk.resets = 1

\* the failing case of C1: the image is written and the line is logged, the
\* restart is looked up under a name that is not bound, and the check returns
\* with no restart invoked
C1_Reached ==
    /\ Differs /\ StorageWorks
    /\ chk.writes = 1
    /\ Has("NameError")
    /\ chk.resets = 0
    /\ chk.returned

\* C2: when the fetch gives 200 with a text equal after normalization to the
\* installed image, the check writes nothing, invokes no restart, and logs
\* exactly one line, "No updates available"; a check that follows such a
\* check with the remote file unchanged is such a check again, so that the
\* image stays as it was however many times the check is repeated.
C2_UpToDateWritesNothing ==
    /\ [](Same => Harmless /\ LoggedOnce(NoUpdatesMsg))
    /\ [][Same /\ chk'.status = "200" => Same' /\ image' = image]_vars

\* the failing case of C2: uos.stat raises, file_exists(SCRIPT_NAME) answers
\* False for the image that is there, and the text that equals it once
\* normalized is installed over it
C2_Reached ==
    /\ Same
    /\ chk.fault = "stat"
    /\ chk.writes = 1
    /\ chk.calls[1].text = AppliedMsg.text
    /\ image = File(normalize_code(chk.text))

\* with the storage working: the second up-to-date check in a row
C2_RepeatedUpToDate ==
    /\ Same
    /\ StorageWorks
    /\ chk.streak >= 2
    /\ chk.calls[1].text = NoUpdatesMsg.text

\* C3: when the fetch raises or gives a status other than 200, the check
\* logs exactly one line (with the status code when there is one), writes
\* nothing, invokes no restart and returns to its caller, which goes on.
C3_UnavailableIsLoggedOnly ==
    Unavailable =>
        /\ Harmless
        /\ chk.status = "404" => LoggedOnce(FetchFailedMsg)
        /\ chk.status = "raise" => LoggedOnce(CheckErrorMsg)

C3_Reached ==
    /\ chk.status = "404"
    /\ chk.calls[1].arg = "404"
    /\ logf.ex /\ logf.data[Len(logf.data)].arg = "404"
    /\ pcMain = "accept"

\* C4: when there is no installed image and the fetch gives 200, the check
\* writes the normalized text to the image and then triggers the restart.
C4_MissingImageInstallsAndRestarts ==
    Missing /\ StorageWorks =>
        /\ chk.writes = 1
        /\ image = File(normalize_code(chk.text))
        /\ chk.resets = 1

\* the failing case of C4: the image is created and no restart is invoked
C4_Reached ==
    /\ Missing /\ StorageWorks
    /\ image = File(normalize_code(chk.text))
    /\ chk.resets = 0

\* C5: the restart is attempted only after a write of the image that
\* succeeded in the same check; when the write fails, all that follows in the
\* check is the error line logged by the except clause, no restart is
\* invoked, and the check returns to its caller, which goes on.
C5_WriteFailureIsCaught ==
    /\ chk.resets > 0 => chk.writes > 0
    /\ \A j \in DOMAIN chk.ev :
          chk.ev[j].e = "NameError" =>
              \E i \in 1..(j - 1) : chk.ev[i].e = "write"
    /\ \A k \in DOMAIN chk.ev :
          chk.ev[k].e = "write_failed" =>
              /\ SubSeq(chk.ev, k + 1, Len(chk.ev)) = <<Ev("log", CheckErrorMsg)>>
              /\ chk.writes = 0
              /\ chk.resets = 0
              /\ chk.returned
              /\ pcMain \in {"checked", "accept"}

C5_Reached ==
    /\ Has("write_failed")
    /\ chk.fault \in WriteFaults
    /\ chk.calls[Len(chk.calls)].text = CheckErrorMsg.text
    /\ chk.returned

\* C6: the image file changes only in a handler that ran an update check
\* whose fetch gave 200, the image being absent or differing, once
\* normalized, from the fetched text, and only where update_script writes it;
\* no other handler (logging, rotation, the other routes, the monitor, the
\* time synchronisation, connecting) changes it.
C6_ImageChangesOnlyByInstaller ==
    [][image' # image =>
          /\ op' \in {"check", "serve"}
          /\ chk'.status = "200"
          /\ chk'.pre = image
          /\ \/ ~image.ex
             \/ normalize_code(image.data) # normalize_code(chk'.text)
          /\ \E k \in DOMAIN chk'.ev : chk'.ev[k].e \in {"write", "write_failed"}]_vars

\* the failing case of C6: the installer has written over an image that
\* existed and did not differ, once normalized, from the fetched text
C6_Reached ==
    /\ chk.status = "200"
    /\ chk.pre.ex
    /\ normalize_code(chk.pre.data) = normalize_code(chk.text)
    /\ image # chk.pre
    /\ Has("write")

\* the installer writing over an image that differed
C6_InstalledDiffering ==
    /\ chk.status = "200"
    /\ chk.pre.ex
    /\ normalize_code(chk.pre.data) # normalize_code(chk.text)
    /\ image # chk.pre
    /\ image = File(normalize_code(chk.text))

\* C7: a log_event call made while the log exists with size >= MAX_LOG_SIZE
\* renames the log to the .bak name exactly once, and leaves a log that
\* holds only what was written after the rotation.
C7_RotationRenamesOnce ==
    \A k \in DOMAIN calls :
        calls[k].over /\ calls[k].fault = "none" =>
            /\ calls[k].renames = 1
            /\ calls[k].after = File(<<Entry(Msg(calls[k].text, calls[k].arg))>>)

\* the failing case of C7: the call renames the log more than once, and the
\* backup holds the line of the nested call, not the log that was full
C7_Reached ==
    \E k \in DOMAIN calls :
        /\ calls[k].over /\ calls[k].fault = "none"
        /\ calls[k].renames > 1
        /\ calls[k].bak = File(<<Entry(RotMsg)>>)

\* C8: log_event never lets an error reach its caller: whatever storage
\* fault it meets in the size check, the rotation or the append, and when
\* its nesting exhausts the stack, it returns normally and the task that
\* called it goes on.
C8_LogEventNeverRaises ==
    /\ \A k \in DOMAIN calls : ~calls[k].raised
    /\ pcMain # "crashed"
    /\ pcMon # "dead"

C8_Reached ==
    \E k \in DOMAIN calls :
        /\ calls[k].fault = "append"
        /\ calls[k].after = calls[k].before
        /\ ~calls[k].raised
        /\ pcMain = "accept"

\* C9: once started, the monitor keeps polling for the whole life of the
\* process: at any time after its start there is a later time at which the
\* handler that ran last is a poll of the monitor, also while the web server
\* accepts and serves.
C9_MonitorPollsForever ==
    [](pcMon # "none" => <>(op = "poll"))

\* the failing case of C9: the main task is in the accept loop, which never
\* yields, and the monitor, started and alive, cannot run
C9_Reached ==
    /\ pcMain = "accept"
    /\ pcMon \in {"ready", "retry"}
    /\ ~ENABLED MonitorStep

\* C10: connect_wifi makes at most 30 polls in its loop; it goes on as
\* connected only when a poll saw the link up, and fails only when the 30
\* polls are done, none having seen it up; after a failure main has returned, and
\* no update check, monitor task, time synchronisation or web server is
\* ever started.
C10_ConnectTerminates ==
    /\ [](attempts <= POLL_LIMIT)
    /\ [](pcMain = "exit" =>
            /\ started = {}
            /\ pcMon = "none"
            /\ chk.seq = 0
            /\ calls[Len(calls)].text = "Failed to connect to Wi-Fi")
    /\ [][pcMain = "connecting" /\ pcMain' = "connected" => link]_vars
    /\ [][pcMain = "connecting" /\ pcMain' = "exit" => attempts = POLL_LIMIT]_vars
    /\ [][pcMain = "connecting" /\ attempts = POLL_LIMIT /\ attempts' # attempts =>
              pcMain' \in {"connected", "exit"}]_vars
    /\ [][pcMain = "exit" => pcMain' = "exit" /\ started' = {}]_vars

C10_Reached ==
    /\ pcMain = "exit"
    /\ op = "connect"
    /\ started = {}

\* the paths the route table of the specification names
TablePaths == {"/led/on", "/led/off", "/log", "/update", "/ota-update"}

\* C11: a request for /update and a request for /ota-update run the update
\* check within the request; a request for any path outside /led/on,
\* /led/off, /log, /update and /ota-update is answered with the control
\* page, and runs no update check.
C11_UpdateRoutesRunCheck ==
    http.closes = 1 /\ http.resp # "" =>
        /\ http.path \in {"/update", "/ota-update"} => chk.status # ""
        /\ http.path \notin TablePaths => http.body = "page" /\ chk.status = ""

\* the failing case of C11: a request for /update is answered with the
\* control page, and no update check runs
C11_Reached ==
    /\ http.path = "/update"
    /\ http.resp = "200"
    /\ http.body = "page"
    /\ chk.status = ""

----------------------------------------------------------------------------
(* The time stamps of the log lines *)

\* the expression of lines 90, 97, 103, 109, 121, 140, 220, 233, 246, 254,
\* 265, 272 and 455, on t = time.localtime(): t[1] the month, t[2] the day
local_offset(t) ==
    IF /\ 3 <= t.month /\ t.month <= 10
       /\ ~(t.month = 3 /\ t.day < 25)
       /\ ~(t.month = 10 /\ t.day >= 25)
    THEN 2 ELSE 1

\* the messages of the log_event calls that pass time.localtime(adjusted_time)
AdjustedSites ==
    {"Update available. Applying update...",
     "Checked for updates: No updates available.",
     "Failed to fetch update: ",
     "Error during OTA update: ",
     "OTA update applied. Restarting...",
     "Log file size exceeded, rotating log file.",
     "Time synchronized with NTP",
     "Failed to synchronize time after multiple attempts",
     "LED Strip turned ON",
     "LED Strip turned OFF",
     "Manual OTA update check triggered via web.",
     "Error during manual OTA update: ",
     "Web server started"}

\* the messages of the log_event calls that pass no time, or time.localtime():
\* lines 172, 180, 186, 196, 204, 208, 227 and 417
PlainSites ==
    {"Connecting to Wi-Fi...",
     "Failed to connect to Wi-Fi",
     "Connected to Wi-Fi, IP address: ",
     "Wi-Fi disconnected, attempting reconnection",
     "Wi-Fi reconnected",
     "Wi-Fi reconnection failed",
     "Error synchronizing time (attempt n): ",
     "Error: "}

\* the hours added to time.localtime() in the line written for a message
stamp_offset(text, t) == IF text \in AdjustedSites THEN local_offset(t) ELSE 0

DaysIn(month) ==
    CASE month = 2 -> 29
      [] month \in {4, 6, 9, 11} -> 30
      [] OTHER -> 31

\* the dates time.localtime() can give
Dates == {t \in [month : 1..12, day : 1..31] : t.day <= DaysIn(t.month)}

\* what the formatted part of a message is filled with
SiteArg(text) ==
    CASE text = "Failed to fetch update: " -> "404"
      [] text = "Connected to Wi-Fi, IP address: " -> "ip"
      [] text = "Error: " -> "ECONNRESET"
      [] text \in {"Error during OTA update: ", "Error during manual OTA update: ",
                   "Error synchronizing time (attempt n): "} -> "OSError"
      [] OTHER -> ""

\* the log_event calls of the program, on any date, with no log yet or with
\* a log that is full; MaxStamps calls are followed
InitClock ==
    /\ now \in Dates
    /\ image = Absent
    /\ logf \in {Absent, File(<<Old(MAX_LOG_SIZE)>>)}
    /\ bak = Absent
    /\ link = TRUE
    /\ remote = <<"a">>
    /\ faultsLeft = 0
    /\ dropsLeft = 0
    /\ cyclesLeft = 0
    /\ reqsLeft = MaxStamps
    /\ netLeft = 0
    /\ Boot

\* a log_event call of one of the call sites: the line is stamped and
\* written, the log rotated before when it is full
Stamp ==
    /\ reqsLeft > 0
    /\ \E text \in AdjustedSites \cup PlainSites :
          /\ stamp' = [text |-> text, offset |-> stamp_offset(text, now)]
          /\ Commit(Log(World, Msg(text, SiteArg(text)), "none"))
    /\ reqsLeft' = reqsLeft - 1
    /\ UNCHANGED <<link, pcMain, pcMon, attempts, mattempts, retries, op,
                   started, http, mosfet, remote, faultsLeft, dropsLeft,
                   cyclesLeft, netLeft, now, sched>>

SpecClock == InitClock /\ [][Stamp]_vars

\* the date is after March 25 and before October 25
StrictlyBetween(t) ==
    /\ t.month > 3 \/ (t.month = 3 /\ t.day > 25)
    /\ t.month < 10 \/ (t.month = 10 /\ t.day < 25)

\* C12: the offset of a log line's time stamp is 2 hours on every date
\* strictly between March 25 and October 25 and 1 hour on every other date,
\* March 25 and October 25 included, whatever the call that writes the line.
C12_OffsetRule ==
    stamp.text # "" => stamp.offset = IF StrictlyBetween(now) THEN 2 ELSE 1

\* the failing case of C12: on March 25 a call that adjusts the time adds 2 hours
C12_Reached ==
    /\ now = [month |-> 3, day |-> 25]
    /\ stamp.text \in AdjustedSites
    /\ stamp.offset = 2

----------------------------------------------------------------------------
(* Images that differ in trailing whitespace and in line endings only *)

\* images as lists of lines without trailing whitespace, the last not empty
Bases ==
    {<<<<"a">>>>, <<<<"a">>, <<"b">>>>, <<<<"a">>, <<>>, <<"b">>>>}

\* what an editor or a transfer may put after a line: trailing whitespace,
\* then LF or CR LF, and after the last line LF, CR LF or nothing
Trails == {<<>>, <<SP>>, <<TAB>>}
Breaks == {<<LF>>, <<CR, LF>>}
Finals == {<<>>, <<LF>>, <<CR, LF>>}

\* the text of the lines b from the i-th on, with trailing whitespace ws[k]
\* and line ending eol[k] after line k, and fin after the last line
RECURSIVE Glue(_, _, _, _, _)
Glue(b, ws, eol, fin, i) ==
    IF i > Len(b) THEN <<>>
    ELSE b[i] \o ws[i] \o (IF i < Len(b) THEN eol[i] ELSE fin)
         \o Glue(b, ws, eol, fin, i + 1)

\* the texts that have the lines b
Renderings(b) ==
    {Glue(b, ws, eol, fin, 1) :
        ws \in [1..Len(b) -> Trails], eol \in [1..(Len(b) - 1) -> Breaks],
        fin \in Finals}

Texts == UNION {Renderings(b) : b \in Bases}

\* two texts with the same lines
AlikePairs ==
    UNION {Renderings(b) \X Renderings(b) : b \in Bases}

\* the startup check of a board with any of the texts installed, against any
\* of the texts as the remote file
InitNorm ==
    /\ image \in {File(t) : t \in Texts}
    /\ remote \in Texts
    /\ logf = Absent
    /\ bak = Absent
    /\ link = TRUE
    /\ faultsLeft = 0
    /\ dropsLeft = 0
    /\ cyclesLeft = 0
    /\ reqsLeft = 0
    /\ netLeft = 0
    /\ now = Summer
    /\ resets = 0
    /\ pcMain = "connected"
    /\ pcMon = "none"
    /\ started = {}
    /\ Fresh

SpecNorm == InitNorm /\ [][StartupCheck]_vars

\* C13: two images whose lines differ only in trailing whitespace or in the
\* style of the line endings (LF, CR LF, a final line ending or none) have
\* the same normalize_code, so that a check of the one against the other
\* finds no update and applies none.
C13_NormalizationIgnoresLayout ==
    chk.status = "200" /\ chk.pre.ex /\ <<chk.pre.data, chk.text>> \in AlikePairs =>
        /\ normalize_code(chk.pre.data) = normalize_code(chk.text)
        /\ Harmless
        /\ LoggedOnce(NoUpdatesMsg)

C13_Reached ==
    /\ chk.status = "200"
    /\ chk.pre = File(<<"a", SP, CR, LF, "b", LF>>)
    /\ chk.text = <<"a", LF, "b", TAB>>
    /\ image = chk.pre
    /\ chk.calls[1].text = NoUpdatesMsg.text

----------------------------------------------------------------------------
\* C14: in every check that writes the image, with the installed image
\* differing and with the installed image missing, the long-short-long blink
\* pattern has been emitted, and has completed, before the write begins.
C14_BlinkBeforeWrite ==
    \A k \in DOMAIN chk.ev :
        chk.ev[k].e \in {"write", "write_failed"} =>
            \E i \in 1..(k - 1) : chk.ev[i].e = "flash"

\* the failing case of C14: the image is missing, and is written with no
\* blink before it
C14_Reached ==
    /\ Missing
    /\ ~chk.pre.ex
    /\ Has("write")
    /\ ~Has("flash")

\* the other writing path: the image differs, and the blink precedes the write
C14_DiffersBlinks ==
    /\ Differs
    /\ Has("write")
    /\ chk.ev[2].e = "flash"

----------------------------------------------------------------------------
\* C15: after a log_event call that rotates the log, the .bak file holds
\* exactly the entries the active log held immediately before the call, an
\* earlier backup being overwritten. (There is one .bak name, so that at most
\* one backup exists at any time.)
C15_BackupIsPreviousLog ==
    \A k \in DOMAIN calls :
        calls[k].over /\ calls[k].fault = "none" =>
            calls[k].bak = calls[k].before

\* the failing case of C15: the log that was full is gone from the backup,
\* which holds the one line written by the nested call
C15_Reached ==
    \E k \in DOMAIN calls :
        /\ calls[k].over /\ calls[k].fault = "none"
        /\ Size(calls[k].before) >= MAX_LOG_SIZE
        /\ calls[k].bak # calls[k].before
        /\ Len(calls[k].bak.data) = 1
        /\ calls[k].after = File(<<Entry(Msg(calls[k].text, calls[k].arg))>>)

----------------------------------------------------------------------------
(* The tasks statement by statement: where a task can be suspended *)

\* A task is a stack of frames, each frame the line its function is at,
\* "<function>:<line>": the statement of that line is in progress, and a step
\* of the task completes it and comes to the next. A frame below the top is
\* at the call it is waiting for. connect_wifi, sync_time, start_web_server
\* and serve are awaited by main and run in its task, in the frame of main.

\* the lines that call log_event
LogCalls ==
    {"connect:172", "connect:180", "connect:186", "mon:196", "mon:204", "mon:208",
     "sync:222", "sync:227", "sync:235", "serve:248", "serve:256", "serve:267",
     "serve:274", "serve:417", "web:457", "check:92", "check:99", "check:105",
     "check:111", "check:123", "log:142"}

\* the lines that call check_for_updates, serve_log and rotate_log_file
CheckCalls == {"main:475", "serve:268"}
ServeLogCalls == {"serve:260"}
RotateCalls == {"log:143"}

\* the lines where a function returns to its caller, and where an exception
\* leaves it: the caller then has the exception pending at its call
Returns == {"log:ret", "check:ret", "slog:ret", "rot:ret"}
Raises == {"check:raise", "slog:raise"}

\* a scheduler that could also suspend a task inside log_event, between the
\* size check and the append
AwaitsInLog ==
    {"connect:177", "mon:201", "mon:209", "sync:229", "main:481", "main:485",
     "log:137"}

\* the lines "await asyncio.sleep(...)": here, and only here, the scheduler
\* can run another task. ("await serve(client)" and "await sync_time(...)"
\* run the coroutine in the task, and s.accept() blocks without suspending.)
Awaits ==
    {"connect:177", "mon:201", "mon:209", "sync:229", "main:481", "main:485"}

\* the lines of a function between which it works on the log file, and those
\* between which check_for_updates works on the image file (exists, read,
\* compare, write)
LogLines ==
    {"log:137", "log:142", "log:143", "log:146", "log:149", "rot:157", "rot:158",
     "rot:161", "slog:425", "slog:428"}
ImageLines == {"check:80", "check:84", "check:92", "check:117", "check:118"}

\* line 137: the log exists and has reached the limit
Full == logf.ex /\ Size(logf) >= MAX_LOG_SIZE

\* line 86: the installed text and the fetched text differ after normalization
Changed == normalize_code(image.data) # normalize_code(remote)

\* the lines that can follow a line in its function when its statement does
\* not fail, the calls it makes having returned or raised; depth is the
\* number of log_event frames on the stack. What wlan.isconnected() answers,
\* the status of the response and the request of the client are the choice
\* between the lines; the tests of the files follow the files, and a call
\* whose callee raised goes to the except clause around it (main has none:
\* asyncio.run of line 491 raises and the program ends). The iterations of
\* the two for loops are not counted here (ConnectPoll and MonitorRetry count
\* them): a loop can be over at any iteration. The server accepts reqsLeft
\* clients, the monitor finds the link down cyclesLeft times.
Flow(l, depth) ==
    CASE l = "connect:170" -> {"connect:172", "connect:186"}
      [] l = "connect:172" -> {"connect:174"}
      [] l = "connect:174" -> {"connect:175", "connect:180"}
      [] l = "connect:175" -> {"connect:177", "connect:186"}
      [] l = "connect:177" -> {"connect:174"}
      [] l = "connect:180" -> {"main:472"}
      [] l = "connect:186" -> {"main:475"}
      [] l = "main:472" -> {}
      [] l = "main:475" -> IF sched.e # "" THEN {"run:491"} ELSE {"main:478"}
      [] l = "main:478" -> {"main:481"}
      [] l = "main:481" -> {"sync:218"}
      [] l = "sync:218" -> {"sync:222"}
      [] l = "sync:222" -> {"main:485"}
      [] l = "sync:227" -> IF retries < MAX_RETRIES THEN {"sync:229"}
                           ELSE {"sync:235"}
      [] l = "sync:229" -> {"sync:218"}
      [] l = "sync:235" -> {"main:485"}
      [] l = "main:485" -> {"web:457"}
      [] l = "web:457" -> {"web:461"}
      [] l = "web:461" -> IF reqsLeft > 0 THEN {"serve:242"} ELSE {}
      [] l = "serve:242" -> {"serve:244", "serve:252", "serve:260", "serve:267",
                             "serve:277"}
      [] l = "serve:244" -> {"serve:248"}
      [] l = "serve:252" -> {"serve:256"}
      [] l = "serve:267" -> {"serve:268"}
      [] l = "serve:260" -> IF sched.e # "" THEN {"serve:417"} ELSE {"serve:419"}
      [] l = "serve:268" -> IF sched.e # "" THEN {"serve:274"} ELSE {"serve:419"}
      [] l \in {"serve:248", "serve:256", "serve:274", "serve:277", "serve:417"} ->
             {"serve:419"}
      [] l = "serve:419" -> {"web:461"}
      [] l = "mon:194" -> IF cyclesLeft > 0 THEN {"mon:196", "mon:209"}
                          ELSE {"mon:209"}
      [] l = "mon:196" -> {"mon:198"}
      [] l = "mon:198" -> {"mon:199", "mon:202"}
      [] l = "mon:199" -> {"mon:201", "mon:202"}
      [] l = "mon:201" -> {"mon:198"}
      [] l = "mon:202" -> {"mon:204", "mon:208"}
      [] l \in {"mon:204", "mon:208"} -> {"mon:209"}
      [] l = "mon:209" -> {"mon:194"}
      [] l = "check:74" -> {"check:76"}
      [] l = "check:76" -> {"check:80", "check:105"}
      [] l = "check:80" -> IF image.ex THEN {"check:84"} ELSE {"check:117"}
      [] l = "check:84" -> IF Changed THEN {"check:92"} ELSE {"check:99"}
      [] l = "check:92" -> {"check:117"}
      [] l = "check:117" -> {"check:118"}
      [] l = "check:118" -> {"check:123"}
      [] l = "check:123" -> {"check:124"}
      [] l = "check:124" -> {"check:106"}
      [] l = "check:106" -> {"check:111"}
      [] l \in {"check:99", "check:105", "check:111"} -> {"check:ret"}
      [] l = "log:137" -> IF ~Full THEN {"log:146"}
                          ELSE IF depth < RecursionLimit THEN {"log:142"}
                          ELSE {"log:149"}
      [] l = "log:142" -> {"log:143"}
      [] l = "log:143" -> {"log:146"}
      [] l = "log:146" -> {"log:ret"}
      [] l = "log:149" -> {"log:ret"}
      [] l = "rot:157" -> IF logf.ex THEN {"rot:158"} ELSE {"rot:ret"}
      [] l = "rot:158" -> {"rot:ret"}
      [] l = "rot:161" -> {"rot:ret"}
      [] l = "slog:425" -> IF logf.ex THEN {"slog:428"} ELSE {"slog:440"}
      [] l = "slog:428" -> {"slog:ret"}
      [] l \in {"slog:440", "slog:444"} -> {"slog:ret"}
      [] OTHER -> {}

\* the failure the environment causes in a run, if any; it lasts for the run:
\* uos.stat raises (file_exists answers False), the second uos.stat of line
\* 137 raises, the rename raises, open(LOG_FILE, "a") raises, a read raises,
\* open(SCRIPT_NAME, "w") or its write raises, the except clause of
\* check_for_updates raises (lines 107 to 110 are outside its try),
\* client.recv raises, client.send raises, urequests.get raises,
\* ntptime.settime() raises
Failures ==
    LogFaults \cup WriteFaults \cup NetFaults \cup {"read", "except", "fetch", "ntp"}

\* the lines that follow the line when the failure f strikes its statement;
\* none when the statement is not of that kind
Fails(l, f) ==
    CASE f = "stat" /\ l = "log:137" /\ logf.ex -> {"log:146"}
      [] f = "stat" /\ l = "rot:157" /\ logf.ex -> {"rot:ret"}
      [] f = "stat" /\ l = "check:80" /\ image.ex -> {"check:117"}
      [] f = "stat" /\ l = "slog:425" /\ logf.ex -> {"slog:440"}
      [] f = "size" /\ l = "log:137" /\ logf.ex -> {"log:149"}
      [] f = "rename" /\ l = "rot:158" -> {"rot:161"}
      [] f = "append" /\ l = "log:146" -> {"log:149"}
      [] f = "read" /\ l = "check:84" -> {"check:106"}
      [] f = "read" /\ l = "slog:428" -> {"slog:444"}
      [] f = "wopen" /\ l = "check:117" -> {"check:106"}
      [] f = "wwrite" /\ l = "check:118" -> {"check:106"}
      [] f = "except" /\ l = "check:106" -> {"check:raise"}
      [] f = "fetch" /\ l = "check:74" -> {"check:106"}
      [] f = "ntp" /\ l = "sync:218" -> {"sync:227"}
      [] f = "recv" /\ l = "serve:242" -> {"serve:417"}
      [] f = "send" /\ l \in {"serve:248", "serve:256", "serve:268", "serve:274",
                             "serve:277"} -> {"serve:417"}
      [] f = "send" /\ l = "slog:428" -> {"slog:444"}
      [] f = "send" /\ l \in {"slog:440", "slog:444"} -> {"slog:raise"}
      [] OTHER -> {}

\* a step from a line: the line it comes to, and why
Edge(to, why) == [to |-> to, why |-> why]

\* the lines that can follow a line in its function, the failure of the run
\* taken into account
After(l, depth) ==
    IF Fails(l, sched.fault) # {}
    THEN {Edge(n, "fault") : n \in Fails(l, sched.fault)}
    ELSE {Edge(n, "flow") : n \in Flow(l, depth)}

Depth(stack) == Cardinality({k \in DOMAIN stack : stack[k] = "log:137"
                                \/ stack[k] = "log:142"})

\* the stack of a task that comes to line l: a call enters the callee
Enter(base, l) ==
    IF l \in LogCalls THEN base \o <<l, "log:137">>
    ELSE IF l \in CheckCalls THEN base \o <<l, "check:74">>
    ELSE IF l \in ServeLogCalls THEN base \o <<l, "slog:425">>
    ELSE IF l \in RotateCalls THEN base \o <<l, "rot:157">>
    ELSE base \o <<l>>

Top(stack) == stack[Len(stack)]
Below(stack) == SubSeq(stack, 1, Len(stack) - 1)

\* the stacks a task can have after its next statement, with the step taken:
\* a return, or an exception that leaves the function, leaves the caller at
\* its call
Succ(stack) ==
    IF Top(stack) \in Returns \cup Raises
    THEN {[stack |-> Below(stack), to |-> "", why |-> "flow"]}
    ELSE {[stack |-> Enter(Below(stack), ed.to), to |-> ed.to, why |-> ed.why] :
             ed \in After(Top(stack), Depth(stack))}

\* the task can be resumed by the scheduler
Ready(stack) == stack # <<>> /\ Succ(stack) # {}

\* the task is in the middle of an operation on the file
MidLog(stack) == \E k \in DOMAIN stack : stack[k] \in LogLines
MidImage(stack) == \E k \in DOMAIN stack : stack[k] \in ImageLines

\* where the running task is suspended
Suspends(l) == l \in Awaits

\* the message of each call of log_event, by the line of the call; e is the
\* exception the except clause of the line has bound
SiteMsg(l, e) ==
    CASE l = "connect:172" -> Msg("Connecting to Wi-Fi...", "")
      [] l = "connect:180" -> Msg("Failed to connect to Wi-Fi", "")
      [] l = "connect:186" -> ConnectedMsg
      [] l = "mon:196" -> Msg("Wi-Fi disconnected, attempting reconnection", "")
      [] l = "mon:204" -> Msg("Wi-Fi reconnected", "")
      [] l = "mon:208" -> Msg("Wi-Fi reconnection failed", "")
      [] l = "sync:222" -> Msg("Time synchronized with NTP", "")
      [] l = "sync:227" -> Msg("Error synchronizing time (attempt n): ", e)
      [] l = "sync:235" ->
             Msg("Failed to synchronize time after multiple attempts", "")
      [] l = "serve:248" -> Msg("LED Strip turned ON", "")
      [] l = "serve:256" -> Msg("LED Strip turned OFF", "")
      [] l = "serve:267" -> Msg("Manual OTA update check triggered via web.", "")
      [] l = "serve:274" -> Msg("Error during manual OTA update: ", e)
      [] l = "serve:417" -> Msg("Error: ", e)
      [] l = "web:457" -> Msg("Web server started", "")
      [] l = "check:92" -> Msg("Update available. Applying update...", "")
      [] l = "check:99" -> Msg("Checked for updates: No updates available.", "")
      [] l = "check:105" -> Msg("Failed to fetch update: ", "404")
      [] l = "check:111" -> Msg("Error during OTA update: ", e)
      [] l = "check:123" -> Msg("OTA update applied. Restarting...", "")
      [] OTHER -> RotMsg

\* the lines where an except clause binds the exception it catches, and the
\* lines of the log_event calls that end these clauses
Catches == {"check:106", "sync:227", "serve:274", "serve:417"}
Ends == {"check:111", "sync:227", "serve:274", "serve:417"}

\* the exception a step raises: the NameError of line 124, what the socket
\* raises, what the storage or the network library raises
Raised(l, why) ==
    IF l = "check:124" THEN "name 'machine' isn't defined"
    ELSE IF why = "fault" /\ sched.fault \in NetFaults THEN "ECONNRESET"
    ELSE "OSError"

\* what the statements write, as the state has it
Data ==
    [logf |-> logf, bak |-> bak, image |-> image, mosfet |-> mosfet,
     retries |-> retries,
     cyclesLeft |-> cyclesLeft, reqsLeft |-> reqsLeft, e |-> sched.e]

\* the exception of the task after a step: raised by the step and caught or
\* leaving the function, pending from the callee and caught, or unbound at
\* the end of the except clause
Bound(d, l, s) ==
    IF s.to \in Raises THEN [d EXCEPT !.e = Raised(l, s.why)]
    ELSE IF s.to \in Catches
    THEN [d EXCEPT !.e = IF l \in CheckCalls \cup ServeLogCalls /\ s.why = "flow"
                         THEN sched.e ELSE Raised(l, s.why)]
    ELSE IF l \in Ends THEN [d EXCEPT !.e = ""]
    ELSE d

\* what the statement of the top line of the stack writes when step s of
\* Succ completes it: the append of lines 146 and 147, the rename of line
\* 158, the open and the write of lines 117 and 118, the pin of lines 244 and
\* 252, the retries of sync_time, and the clients and the losses of the link
\* the environment has left
Effect(stack, s) ==
    LET l == Top(stack)
        d == Bound(Data, l, s)
    IN CASE l = "log:146" /\ s.to = "log:ret" ->
              [d EXCEPT !.logf = File(logf.data \o
                  <<Entry(SiteMsg(Top(Below(stack)), sched.e))>>)]
         [] l = "rot:158" /\ s.to = "rot:ret" ->
              [d EXCEPT !.bak = logf, !.logf = Absent]
         [] l = "check:117" /\ s.to = "check:118" -> [d EXCEPT !.image = File(<<>>)]
         [] l = "check:118" /\ s.to = "check:123" ->
              [d EXCEPT !.image = File(normalize_code(remote))]
         [] l = "serve:244" -> [d EXCEPT !.mosfet = TRUE]
         [] l = "serve:252" -> [d EXCEPT !.mosfet = FALSE]
         [] l = "mon:194" /\ s.to = "mon:196" -> [d EXCEPT !.cyclesLeft = @ - 1]
         [] l = "sync:218" /\ s.to = "sync:227" -> [d EXCEPT !.retries = @ + 1]
         [] l \in {"main:481", "sync:222", "sync:235"} -> [d EXCEPT !.retries = 0]
         [] l = "web:461" /\ s.to = "serve:242" -> [d EXCEPT !.reqsLeft = @ - 1]
         [] OTHER -> d

\* asyncio.run(main()): main runs, monitor_wifi is not created yet; with or
\* without an installed image, the log absent or full
InitSched ==
    /\ \E f \in {"none"} \cup Failures :
          sched = [run |-> "main", main |-> <<"connect:170">>, mon |-> <<>>,
                   e |-> "", fault |-> f]
    /\ image \in {Absent, File(<<"a", SP, LF>>)}
    /\ remote \in Remote
    /\ image = Absent => remote = <<"a">>
    /\ logf \in {Absent, File(<<Old(MAX_LOG_SIZE)>>)}
    /\ bak = Absent
    /\ link = TRUE
    /\ faultsLeft = 0
    /\ dropsLeft = 0
    /\ cyclesLeft = IF sched.fault = "none" THEN MaxCycles ELSE 0
    /\ reqsLeft = MaxClients
    /\ netLeft = 0
    /\ now = Summer
    /\ resets = 0
    /\ pcMain = "start"
    /\ pcMon = "none"
    /\ started = {}
    /\ attempts = 0
    /\ mattempts = 0
    /\ retries = 0
    /\ op = "boot"
    /\ chk = NoCheck
    /\ calls = <<>>
    /\ http = NoClient
    /\ mosfet = FALSE
    /\ stamp = NoStamp

\* what no statement writes: the records of the handlers, and the link,
\* whose answers are the choices of Flow
Rest ==
    <<resets, link, pcMain, pcMon, attempts, mattempts, op, started, chk,
      calls, http, remote, faultsLeft, dropsLeft, netLeft, now, stamp>>

\* the running task executes its next statement; at an await it is
\* suspended; line 478 creates the monitor task
Statement ==
    /\ sched.run # "none"
    /\ \E s \in Succ(sched[sched.run]) :
          LET d == Effect(sched[sched.run], s)
              s1 == [sched EXCEPT ![sched.run] = s.stack, !.e = d.e]
              s2 == IF Top(sched[sched.run]) = "main:478"
                    THEN [s1 EXCEPT !.mon = <<"mon:194">>] ELSE s1
          IN /\ sched' = IF Suspends(Top(s.stack))
                         THEN [s2 EXCEPT !.run = "none"] ELSE s2
             /\ logf' = d.logf
             /\ bak' = d.bak
             /\ image' = d.image
             /\ mosfet' = d.mosfet
             /\ retries' = d.retries
             /\ cyclesLeft' = d.cyclesLeft
             /\ reqsLeft' = d.reqsLeft
    /\ UNCHANGED Rest

\* the scheduler resumes a task that waits at an await, or the monitor task
\* that was created and has not run yet
Resume ==
    /\ sched.run = "none"
    /\ \E t \in {"main", "mon"} :
          /\ Ready(sched[t])
          /\ sched' = [sched EXCEPT !.run = t]
    /\ UNCHANGED Rest
    /\ UNCHANGED <<logf, bak, image, mosfet, retries, cyclesLeft, reqsLeft>>

NextSched == Statement \/ Resume

SpecSched == InitSched /\ [][NextSched]_vars

\* C16: the tasks interleaving only at their suspension points, no two tasks
\* are in the middle of an operation on the log file at the same time, nor on
\* the image file: a task that is inside log_event, inside serve_log's read
\* or inside the read, compare, write sequence of check_for_updates is the
\* running task, and the other task is at an await, outside every such
\* operation, until the operation is over.
C16_FilesOneTaskAtATime ==
    /\ ~(MidLog(sched.main) /\ MidLog(sched.mon))
    /\ ~(MidImage(sched.main) /\ MidImage(sched.mon))
    /\ \A t \in {"main", "mon"} :
          MidLog(sched[t]) \/ MidImage(sched[t]) => sched.run = t

\* the monitor is inside log_event, at the append, while the main task, whose
\* line of sync_time is the last of the log, waits at the await of line 485
C16_Reached ==
    /\ sched.run = "mon"
    /\ sched.mon = <<"mon:196", "log:146">>
    /\ sched.main = <<"main:485">>
    /\ logf.ex
    /\ logf.data[Len(logf.data)].text = "Time synchronized with NTP"

----------------------------------------------------------------------------
\* C17: a manual update request is answered 500 when the update check meets
\* an internal error (the fetch raises, or the write of the image fails) and
\* 200 otherwise.
C17_ManualUpdateAnswersError ==
    http.path = "/ota-update" /\ http.resp # "" =>
        http.resp = IF chk.status = "raise" \/ Has("write_failed")
                    THEN "500" ELSE "200"

\* the failing case of C17: the fetch raised, the error line of the check is
\* in the log, and the request is answered 200 with the text "None"
C17_Reached ==
    /\ http.path = "/ota-update"
    /\ chk.status = "raise"
    /\ Has("fetch_raised")
    /\ chk.calls[Len(chk.calls)].text = CheckErrorMsg.text
    /\ http.resp = "200"
    /\ http.body = "None"

\* the same with a write of the image that fails
C17_WriteFailedAnswered200 ==
    /\ http.path = "/ota-update"
    /\ Has("write_failed")
    /\ http.resp = "200"

----------------------------------------------------------------------------
\* C18: in every reachable state the size of the active log file is at most
\* MAX_LOG_SIZE, whatever log_event calls were made.
C18_LogSizeBounded ==
    logf.ex => Size(logf) <= MAX_LOG_SIZE

\* the failing case of C18: a log_event call that found the log below
\* MAX_LOG_SIZE, did not rotate, and left it above MAX_LOG_SIZE
C18_Reached ==
    \E k \in DOMAIN calls :
        /\ calls[k].before.ex
        /\ Size(calls[k].before) < MAX_LOG_SIZE
        /\ calls[k].renames = 0
        /\ Size(calls[k].after) > MAX_LOG_SIZE
        /\ logf = calls[k].after

----------------------------------------------------------------------------
(* Checks that follow an update *)

\* remote files that end in an empty line, or in a line of whitespace only
Padded == {<<"a", LF, LF>>, <<"a", LF, "b", LF, SP>>}

\* the startup check and the requests of a board whose storage works, with
\* an empty log, the remote file being any of Remote and of Padded
InitConv ==
    /\ image \in {Absent} \cup {File(t) : t \in Installed}
    /\ remote \in Remote \cup Padded
    /\ logf = Absent
    /\ bak = Absent
    /\ link = TRUE
    /\ faultsLeft = 0
    /\ dropsLeft = 0
    /\ cyclesLeft = 0
    /\ reqsLeft = MaxReqs
    /\ netLeft = 0
    /\ now = Summer
    /\ resets = 0
    /\ \/ pcMain = "connected" /\ pcMon = "none" /\ started = {}
       \/ pcMain = "accept" /\ pcMon = "ready"
          /\ started = {"check", "monitor", "sync", "web"}
    /\ Fresh

SpecConv == InitConv /\ [][NextOps]_vars

\* C19: updates converge: the check that follows a check that wrote the
\* image, the remote file being the same, finds the image up to date, writes
\* nothing and invokes no restart.
C19_UpdatesConverge ==
    [][chk.writes = 1 /\ chk'.seq = chk.seq + 1 /\ chk'.status = "200"
           /\ chk'.text = chk.text =>
          /\ chk'.pre = File(normalize_code(chk.text))
          /\ chk'.writes = 0
          /\ chk'.resets = 0
          /\ image' = image]_vars

\* the failing case of C19: the image is what the last update stored, the
\* normalized remote text, and the check writes it again
C19_Reached ==
    /\ chk.seq >= 2
    /\ chk.status = "200"
    /\ chk.pre = File(normalize_code(chk.text))
    /\ chk.writes = 1
    /\ image = chk.pre
    /\ normalize_code(normalize_code(chk.text)) # normalize_code(chk.text)

\* with a remote file that ends in its last line the next check is up to date
C19_ConvergedOnPlainText ==
    /\ chk.seq >= 2
    /\ chk.text = <<"a", CR, LF, "b", SP>>
    /\ chk.pre = File(normalize_code(chk.text))
    /\ chk.writes = 0
    /\ chk.streak >= 1

----------------------------------------------------------------------------
(* The accept loop with clients whose sockets fail *)

\* the web server in its accept loop, the storage failing up to MaxFaults
\* times and the client sockets up to MaxNetFaults times
InitWeb ==
    /\ image \in {File(t) : t \in Installed}
    /\ remote \in Remote
    /\ logf \in {Absent, File(<<Old(100)>>)}
    /\ bak = Absent
    /\ link = TRUE
    /\ faultsLeft = MaxFaults
    /\ dropsLeft = 0
    /\ cyclesLeft = 0
    /\ reqsLeft = MaxReqs
    /\ netLeft = MaxNetFaults
    /\ now = Summer
    /\ resets = 0
    /\ pcMain = "accept"
    /\ pcMon = "ready"
    /\ started = {"check", "monitor", "sync", "web"}
    /\ Fresh

SpecWeb == InitWeb /\ [][Serve]_vars

\* C20: serve closes the client exactly once before the next connection is
\* accepted, on every route, and also when client.recv raises, when
\* client.send raises and when a route meets an error; no request ends the
\* accept loop: the main task is back at s.accept().
C20_EveryClientClosed ==
    /\ pcMain = "accept"
    /\ op = "serve" => http.closes = 1

\* a request whose response could not be sent: the check ran, the send
\* raised, the error is logged, the client is closed and the loop goes on
C20_Reached ==
    /\ op = "serve"
    /\ http.path = "/ota-update"
    /\ chk.status = "200"
    /\ http.resp = ""
    /\ http.closes = 1
    /\ calls[Len(calls)].text = "Error: "
    /\ calls[Len(calls)].arg = "ECONNRESET"
    /\ pcMain = "accept"

\* a request that could not be received
C20_ReceiveFailed ==
    /\ op = "serve"
    /\ http.resp = ""
    /\ Len(calls) = 1
    /\ calls[1].arg = "ECONNRESET"
    /\ http.closes = 1

====
